---------------------------- MODULE Spec2Model ----------------------------
(***************************************************************************)
(* Graph construction and layout engine of the linguistic network view:    *)
(* buildGraphFromData with applyWordLayout / applyRadialLayout, as one     *)
(* state machine.  One build is a run of the machine; each loop iteration  *)
(* of the source is one step.  A second state machine is the view around   *)
(* it: GraphVisualization and LoadGraph, which fetch a payload for every   *)
(* change of the filters or of the refresh key and hand it to the build.   *)
(* A third is SearchBar, the concordance search next to the view.          *)
(*                                                                         *)
(* Representation:                                                         *)
(*  - a JavaScript string is the sequence of its characters;               *)
(*  - a JavaScript value is a record [t, n, s]: t its type, n its number,  *)
(*    s its characters;                                                    *)
(*  - node sizes are whole numbers; edge sizes are kept in tenths, so that *)
(*    raw * 0.8 and the floor 1.5 are exact (raw sizes are whole numbers); *)
(*  - a coordinate is [f, v, i, n, it]: f = "num" is the number v,         *)
(*    f = "cos" / "sin" is v * cos(2*pi*i/n) / v * sin(2*pi*i/n), and it   *)
(*    is the number of force-refinement iterations applied to it since.    *)
(***************************************************************************)
EXTENDS Integers, Sequences, FiniteSets

VARIABLES
    data,                \* the raw payload {nodes, edges} handed to the build
    isWordVisualization, \* the mode flag: TRUE focused, FALSE overview
    pc,                  \* position of the build in buildGraphFromData
    i,                   \* 1-based position of the current forEach loop
    sectionCounter,      \* let sectionCounter
    sectionIdMap,        \* Map<string, number> of Section ids
    graph,               \* the MultiDirectedGraph: [nodes, edges] in insertion order
    isDenseGraph,        \* const isDenseGraph
    addedEdges,          \* Set<string> of edge keys
    duplicateCount,      \* let duplicateCount
    fa2,                 \* the forceAtlas2.assign call made, if any
    searchWord,          \* prop searchWord of GraphVisualization
    searchType,          \* prop searchType of GraphVisualization
    searchDeps,          \* the [searchWord, searchType] its search effect last ran with
    graphFilters,        \* state graphFilters
    refreshKey,          \* state refreshKey, the key of SigmaContainer
    hasData,             \* state hasData
    connectionError,     \* state connectionError
    activeTextId,        \* state activeTextId
    reactPc,             \* what React has still to commit for LoadGraph
    cycles,              \* the runs of the LoadGraph effect: controller and fetch of each
    graphLoadedBy,       \* the cycle whose graph the mounted sigma holds, 0 for none
    dataLoadedBy,        \* the cycles that called onDataLoaded, in order
    triggers,            \* count of the handler runs that changed refreshKey or graphFilters
    searchQuery,         \* state searchQuery of SearchBar
    barSearchType,       \* state searchType of SearchBar
    results,             \* state results of SearchBar
    isSearching,         \* state isSearching of SearchBar
    showResults,         \* state showResults of SearchBar
    searches,            \* the concordance requests handleSearch has sent, in order
    handled,             \* count of the runs of handleSearch
    reported             \* what onSearchResults was last called with, if it was

buildVars == <<data, isWordVisualization, pc, i, sectionCounter, sectionIdMap,
               graph, isDenseGraph, addedEdges, duplicateCount, fa2>>

viewVars == <<searchWord, searchType, searchDeps, graphFilters, refreshKey, hasData,
              connectionError, activeTextId, reactPc, cycles, graphLoadedBy,
              dataLoadedBy, triggers>>

barVars == <<searchQuery, barSearchType, results, isSearching, showResults,
             searches, handled, reported>>

vars == <<buildVars, viewVars, barVars>>

---------------------------------------------------------------------------
(* Bounds of the model.                                                    *)

\* longest raw node sequence drawn from NodePool
MaxNodes == 3
\* longest raw edge sequence drawn from EdgePool
MaxEdges == 3
\* most handler runs that change refreshKey or graphFilters in one behaviour
MaxTriggers == 2
\* most runs of handleSearch in one behaviour
MaxSearches == 3

---------------------------------------------------------------------------
(* JavaScript values and strings.                                          *)

Undefined == [t |-> "undefined", n |-> 0, s |-> <<>>]
Null == [t |-> "null", n |-> 0, s |-> <<>>]
Num(k) == [t |-> "number", n |-> k, s |-> <<>>]
Str(cs) == [t |-> "string", n |-> 0, s |-> cs]
\* an object literal; n tells two objects apart, 0 is the empty object {}
Obj(k) == [t |-> "object", n |-> k, s |-> <<>>]

\* JavaScript truthiness, as used by !v and v || w
Truthy(v) ==
    CASE v.t = "number" -> v.n # 0
      [] v.t = "string" -> v.s # <<>>
      [] v.t = "object" -> TRUE
      [] OTHER -> FALSE

\* v || w
OrElse(v, w) == IF Truthy(v) THEN v ELSE w

Digit == <<"0", "1", "2", "3", "4", "5", "6", "7", "8", "9">>

RECURSIVE NatToString(_)
NatToString(k) ==
    IF k < 10 THEN <<Digit[k + 1]>>
    ELSE NatToString(k \div 10) \o <<Digit[(k % 10) + 1]>>

\* String(v) for the values of the model
ToString(v) ==
    CASE v.t = "undefined" -> <<"u", "n", "d", "e", "f", "i", "n", "e", "d">>
      [] v.t = "null" -> <<"n", "u", "l", "l">>
      [] v.t = "number" ->
            IF v.n < 0 THEN <<"-">> \o NatToString(-v.n) ELSE NatToString(v.n)
      [] v.t = "string" -> v.s
      [] OTHER -> <<"[", "o", "b", "j", "e", "c", "t", " ", "O", "b", "j", "e", "c", "t", "]">>

WhiteSpace == {" ", "\t", "\n"}

RECURSIVE TrimStart(_)
TrimStart(cs) ==
    IF cs # <<>> /\ Head(cs) \in WhiteSpace THEN TrimStart(Tail(cs)) ELSE cs

RECURSIVE TrimEnd(_)
TrimEnd(cs) ==
    IF cs # <<>> /\ cs[Len(cs)] \in WhiteSpace
    THEN TrimEnd(SubSeq(cs, 1, Len(cs) - 1))
    ELSE cs

\* String.prototype.trim
Trim(cs) == TrimEnd(TrimStart(cs))

Max(a, b) == IF a >= b THEN a ELSE b

---------------------------------------------------------------------------
(* Literals of the source.                                                 *)

TypeText == <<"T", "e", "x", "t">>
TypeSection == <<"S", "e", "c", "t", "i", "o", "n">>
TypePhrase == <<"P", "h", "r", "a", "s", "e">>
TypeWord == <<"W", "o", "r", "d">>
TypeMorpheme == <<"M", "o", "r", "p", "h", "e", "m", "e">>
TypeGloss == <<"G", "l", "o", "s", "s">>
TypeOther == <<"O", "t", "h", "e", "r">>
TypeEmpty == <<"E", "m", "p", "t", "y">>

typeOrder == <<TypeText, TypeSection, TypePhrase, TypeWord, TypeMorpheme, TypeGloss>>

DefaultNodeColor == <<"#", "6", "4", "7", "4", "8", "b">>
DefaultEdgeColor == <<"#", "6", "0", "a", "5", "f", "a">>
EdgeAlphaSuffix == <<"D", "D">>
EmptyNodeKey == <<"e", "m", "p", "t", "y">>
EmptyNodeLabel == <<"N", "o", " ", "d", "a", "t", "a", " ", "y", "e", "t", " ", "-", " ", "u", "p", "l", "o", "a", "d", " ", "a", " ", ".", "f", "l", "e", "x", "t", "e", "x", "t", " ", "f", "i", "l", "e", "!">>
EdgeIdPrefix == <<"e", "d", "g", "e", "-">>
EdgeLineType == <<"l", "i", "n", "e">>

DefaultNodeSize == 10
TextMinSize == 25
SectionMinSize == 18
PhraseMinSize == 12
WordMinSize == 8
MorphemeMinSize == 5
GlossMinSize == 6
EmptyNodeSize == 20
EmptyNodeX == 50
EmptyNodeY == 50

horizontalSpacing == 150
verticalSpacing == 100
radiusStep == 200

DenseNodeCount == 200
DenseEdgeCount == 500
DefaultEdgeSize == 2
\* the factor 0.8 and the floor 1.5, in tenths
DenseEdgeScaleTenths == 8
MinEdgeSizeTenths == 15
FallbackEdgeSizeTenths == 20

---------------------------------------------------------------------------
(* Raw records.                                                            *)

\* a raw node record { id, type, label?, size?, color?, properties? }
NodeRec(id, type, label, size, color, properties) ==
    [t |-> "object", id |-> id, type |-> type, label |-> label, size |-> size,
     color |-> color, properties |-> properties]

\* a null entry of data.nodes
NullNodeRec ==
    [t |-> "null", id |-> Undefined, type |-> Undefined, label |-> Undefined,
     size |-> Undefined, color |-> Undefined, properties |-> Undefined]

\* a raw edge record { id?, source, target, type?, size?, color? }
EdgeRec(id, source, target, type, size, color) ==
    [t |-> "object", id |-> id, source |-> source, target |-> target,
     type |-> type, size |-> size, color |-> color]

\* a null entry of data.edges
NullEdgeRec ==
    [t |-> "null", id |-> Undefined, source |-> Undefined, target |-> Undefined,
     type |-> Undefined, size |-> Undefined, color |-> Undefined]

\* data.nodes && data.nodes.length > 0 (and the same for data.edges)
HasRecords(present, records) == present /\ Len(records) > 0

---------------------------------------------------------------------------
(* Coordinates.                                                            *)

NumCoord(v) == [f |-> "num", v |-> v, i |-> 0, n |-> 1, it |-> 0]

\* radius * Math.cos((2 * Math.PI * k) / count); exact when radius or k is 0
CosCoord(radius, k, count) ==
    IF radius = 0 THEN NumCoord(0)
    ELSE IF k = 0 THEN NumCoord(radius)
    ELSE [f |-> "cos", v |-> radius, i |-> k, n |-> count, it |-> 0]

\* radius * Math.sin((2 * Math.PI * k) / count); exact when radius or k is 0
SinCoord(radius, k, count) ==
    IF radius = 0 \/ k = 0 THEN NumCoord(0)
    ELSE [f |-> "sin", v |-> radius, i |-> k, n |-> count, it |-> 0]

---------------------------------------------------------------------------
(* The graph.                                                              *)

EmptyGraph == [nodes |-> <<>>, edges |-> <<>>]

\* graph.hasNode(key)
HasNode(g, key) == \E k \in 1..Len(g.nodes) : g.nodes[k].key = key

\* an edge with this key exists: graph.addEdgeWithKey throws on it
HasEdge(g, key) == \E k \in 1..Len(g.edges) : g.edges[k].key = key

\* graph.nodes()
NodeKeys(g) == {g.nodes[k].key : k \in 1..Len(g.nodes)}

---------------------------------------------------------------------------
(* First pass: sequential ids of the Section records.                      *)

\* one iteration of the first forEach, on the pair [map, counter]
CollectSection(sec, node) ==
    IF node.type = Str(TypeSection)
    THEN LET nodeId == ToString(node.id) IN
         IF nodeId \in DOMAIN sec.map
         THEN sec
         ELSE [map |-> [k \in DOMAIN sec.map \cup {nodeId} |->
                           IF k = nodeId THEN sec.counter + 1 ELSE sec.map[k]],
               counter |-> sec.counter + 1]
    ELSE sec

---------------------------------------------------------------------------
(* Second pass: nodes.                                                     *)

\* ResolveNodeSize with the Word floor left out
ResolveNodeSizeNoWordFloor(node) ==
    LET dynamicSize == OrElse(node.size, Num(DefaultNodeSize)).n IN
    CASE node.type = Str(TypeText) -> Max(dynamicSize, TextMinSize)
      [] node.type = Str(TypeSection) -> Max(dynamicSize, SectionMinSize)
      [] node.type = Str(TypePhrase) -> Max(dynamicSize, PhraseMinSize)
      [] node.type = Str(TypeMorpheme) -> Max(dynamicSize, MorphemeMinSize)
      [] node.type = Str(TypeGloss) -> Max(dynamicSize, GlossMinSize)
      [] OTHER -> dynamicSize

\* the size floor of a node type
ResolveNodeSize(node) ==
    LET dynamicSize == OrElse(node.size, Num(DefaultNodeSize)).n IN
    CASE node.type = Str(TypeText) -> Max(dynamicSize, TextMinSize)
      [] node.type = Str(TypeSection) -> Max(dynamicSize, SectionMinSize)
      [] node.type = Str(TypePhrase) -> Max(dynamicSize, PhraseMinSize)
      [] node.type = Str(TypeWord) -> Max(dynamicSize, WordMinSize)
      [] node.type = Str(TypeMorpheme) -> Max(dynamicSize, MorphemeMinSize)
      [] node.type = Str(TypeGloss) -> Max(dynamicSize, GlossMinSize)
      [] OTHER -> dynamicSize

\* the display label: the sequential id for a Section, else label or id
ResolveNodeLabel(node, nodeId, map) ==
    IF node.type = Str(TypeSection) /\ nodeId \in DOMAIN map
    THEN NatToString(map[nodeId])
    ELSE ToString(OrElse(node.label, Str(nodeId)))

\* NewNode starting the node away from the origin
NewNodeOffOrigin(node, nodeId, map) ==
    [key |-> nodeId,
     label |-> ResolveNodeLabel(node, nodeId, map),
     size |-> ResolveNodeSize(node),
     color |-> ToString(OrElse(node.color, Str(DefaultNodeColor))),
     nodeType |-> node.type,
     properties |-> OrElse(node.properties, Obj(0)),
     x |-> NumCoord(50),
     y |-> NumCoord(50)]

\* the attributes passed to graph.addNode
NewNode(node, nodeId, map) ==
    [key |-> nodeId,
     label |-> ResolveNodeLabel(node, nodeId, map),
     size |-> ResolveNodeSize(node),
     color |-> ToString(OrElse(node.color, Str(DefaultNodeColor))),
     nodeType |-> node.type,
     properties |-> OrElse(node.properties, Obj(0)),
     x |-> NumCoord(0),
     y |-> NumCoord(0)]

\* AddNodeRecord without the hasNode test: every record adds a node
AddNodeRecordUnchecked(g, node, map) ==
    [g EXCEPT !.nodes = Append(@, NewNode(node, ToString(node.id), map))]

\* AddNodeRecord where a duplicate id overwrites the attributes of the node
AddNodeRecordOverwriting(g, node, map) ==
    LET nodeId == ToString(node.id) IN
    IF HasNode(g, nodeId)
    THEN [g EXCEPT !.nodes = [k \in 1..Len(@) |->
                                IF @[k].key = nodeId
                                THEN NewNode(node, nodeId, map)
                                ELSE @[k]]]
    ELSE [g EXCEPT !.nodes = Append(@, NewNode(node, nodeId, map))]

\* one iteration of the second forEach: skip a duplicate id, else add the node
AddNodeRecord(g, node, map) ==
    LET nodeId == ToString(node.id) IN
    IF HasNode(g, nodeId)
    THEN g
    ELSE [g EXCEPT !.nodes = Append(@, NewNode(node, nodeId, map))]

\* PlaceholderNode with the nodeType attribute forgotten
PlaceholderNodeUntyped ==
    [key |-> EmptyNodeKey,
     label |-> EmptyNodeLabel,
     size |-> EmptyNodeSize,
     color |-> DefaultNodeColor,
     nodeType |-> Undefined,
     properties |-> Undefined,
     x |-> NumCoord(EmptyNodeX),
     y |-> NumCoord(EmptyNodeY)]

\* the helpful message node of the else branch
PlaceholderNode ==
    [key |-> EmptyNodeKey,
     label |-> EmptyNodeLabel,
     size |-> EmptyNodeSize,
     color |-> DefaultNodeColor,
     nodeType |-> Str(TypeEmpty),
     properties |-> Undefined,
     x |-> NumCoord(EmptyNodeX),
     y |-> NumCoord(EmptyNodeY)]

---------------------------------------------------------------------------
(* Initial layouts.                                                        *)

\* TypeKey filing a node without a type under Word
TypeKeyDefaultWord(attrs) ==
    IF Truthy(attrs.nodeType) THEN ToString(attrs.nodeType) ELSE TypeWord

\* attrs.nodeType || "Other", as a key of nodesByType
TypeKey(attrs) ==
    IF Truthy(attrs.nodeType) THEN ToString(attrs.nodeType) ELSE TypeOther

\* nodesByType[type]: the positions in g.nodes of the nodes of the type, in order
NodesByType(nodes, type) ==
    SelectSeq([k \in 1..Len(nodes) |-> k], LAMBDA k : TypeKey(nodes[k]) = type)

\* 0-based index of x in a sequence holding it
IndexIn(seq, x) == (CHOOSE j \in 1..Len(seq) : seq[j] = x) - 1

IsOrderedType(type) == \E l \in 1..Len(typeOrder) : typeOrder[l] = type

\* LevelIndex counting the levels from 1
LevelIndexFromOne(type) == IndexIn(typeOrder, type) + 1

\* levelIndex of forEach over typeOrder
LevelIndex(type) == IndexIn(typeOrder, type)

\* WordLayoutX starting at the full width instead of half of it
WordLayoutXNotCentred(count, k) ==
    LET totalWidth == (count - 1) * horizontalSpacing
        startX == -totalWidth
    IN  startX + k * horizontalSpacing

\* x of the node at 0-based place k among count nodes of a band
WordLayoutX(count, k) ==
    LET totalWidth == (count - 1) * horizontalSpacing
        startX == (-totalWidth) \div 2
    IN  startX + k * horizontalSpacing

\* y of a band
WordLayoutY(levelIndex) == levelIndex * verticalSpacing

\* applyWordLayout, on the node sequence
applyWordLayout(nodes) ==
    [k \in 1..Len(nodes) |->
        LET type == TypeKey(nodes[k]) IN
        IF IsOrderedType(type)
        THEN LET group == NodesByType(nodes, type) IN
             [nodes[k] EXCEPT
                !.x = NumCoord(WordLayoutX(Len(group), IndexIn(group, k))),
                !.y = NumCoord(WordLayoutY(LevelIndex(type)))]
        ELSE nodes[k]]

\* RadialRadius with the innermost ring one step out
RadialRadiusFromOne(levelIndex) == (levelIndex + 1) * radiusStep

\* radius of a ring
RadialRadius(levelIndex) == levelIndex * radiusStep

\* applyRadialLayout, on the node sequence
applyRadialLayout(nodes) ==
    [k \in 1..Len(nodes) |->
        LET type == TypeKey(nodes[k]) IN
        IF IsOrderedType(type)
        THEN LET group == NodesByType(nodes, type)
                 radius == RadialRadius(LevelIndex(type))
             IN  [nodes[k] EXCEPT
                    !.x = CosCoord(radius, IndexIn(group, k), Len(group)),
                    !.y = SinCoord(radius, IndexIn(group, k), Len(group))]
        ELSE nodes[k]]

---------------------------------------------------------------------------
(* Edges.                                                                  *)

\* IsDense with the thresholds included
IsDenseInclusive(nodeCount, edgeCount) ==
    nodeCount >= DenseNodeCount \/ edgeCount >= DenseEdgeCount

\* const isDenseGraph = nodeCount > 200 || edgeCount > 500, on the raw lengths
IsDense(nodeCount, edgeCount) ==
    nodeCount > DenseNodeCount \/ edgeCount > DenseEdgeCount

\* `${sourceId}→${targetId}`
EdgeKey(sourceId, targetId) == sourceId \o <<"→">> \o targetId

\* edgeSize, then Number(edgeSize) || 2, in tenths
EdgeSize(edge, dense) ==
    LET raw == OrElse(edge.size, Num(DefaultEdgeSize)).n
        edgeSize == IF dense
                    THEN Max(raw * DenseEdgeScaleTenths, MinEdgeSizeTenths)
                    ELSE Max(raw * 10, MinEdgeSizeTenths)
    IN  IF edgeSize # 0 THEN edgeSize ELSE FallbackEdgeSizeTenths

\* (edge.color || "#60a5fa") + "DD"
EdgeColor(edge) ==
    ToString(OrElse(edge.color, Str(DefaultEdgeColor))) \o EdgeAlphaSuffix

\* EdgeId synthesized from the source and the target alone
EdgeIdWithoutIndex(edge, sourceId, targetId, index) ==
    OrElse(edge.id, Str(EdgeIdPrefix \o sourceId \o <<"-">> \o targetId))

\* edge.id || `edge-${sourceId}-${targetId}-${index}`, index 0-based
EdgeId(edge, sourceId, targetId, index) ==
    OrElse(edge.id,
           Str(EdgeIdPrefix \o sourceId \o <<"-">> \o targetId \o <<"-">>
               \o NatToString(index)))

\* the source check of line 398
SourceExists(g, sourceId) == HasNode(g, sourceId)

\* TargetExists with the check left out
TargetExistsUnchecked(g, targetId) == TRUE

\* the target check of line 405
TargetExists(g, targetId) == HasNode(g, targetId)

\* MarkAdded that forgets the key
MarkAddedForgotten(added, edgeKey) == added

\* addedEdges.add(edgeKey)
MarkAdded(added, edgeKey) == added \cup {edgeKey}

\* one iteration of the edge forEach on st = [graph, addedEdges, duplicateCount];
\* index is the 0-based forEach index
ProcessEdge(st, edge, index, dense) ==
    IF edge.t # "object" THEN st
    ELSE IF ~Truthy(edge.source) \/ ~Truthy(edge.target) THEN st
    ELSE
      LET sourceId == Trim(ToString(edge.source))
          targetId == Trim(ToString(edge.target))
          edgeKey == EdgeKey(sourceId, targetId)
          edgeId == EdgeId(edge, sourceId, targetId, index)
      IN
      IF sourceId = <<>> \/ targetId = <<>> THEN st
      ELSE IF edgeKey \in st.addedEdges
           THEN [st EXCEPT !.duplicateCount = @ + 1]
      ELSE IF ~SourceExists(st.graph, sourceId) THEN st
      ELSE IF ~TargetExists(st.graph, targetId) THEN st
      ELSE IF edgeId.t # "string" \/ ~Truthy(edgeId) THEN st
      \* addEdgeWithKey throws on an existing key; the catch logs and goes on
      ELSE IF HasEdge(st.graph, edgeId.s) THEN st
      ELSE [st EXCEPT
              !.graph.edges =
                  Append(@, [key |-> edgeId.s,
                             source |-> sourceId,
                             target |-> targetId,
                             size |-> EdgeSize(edge, dense),
                             color |-> EdgeColor(edge),
                             type |-> EdgeLineType,
                             relationshipType |->
                                 ToString(OrElse(edge.type, Str(<<>>)))]),
              !.addedEdges = MarkAdded(@, edgeKey)]

\* the edge forEach over the 1-based positions lo..hi; the range is split in
\* halves and the first half is evaluated before the second (the test on
\* duplicateCount, which is never negative) to keep the evaluation shallow
RECURSIVE EdgeLoop(_, _, _, _, _)
EdgeLoop(st, edges, lo, hi, dense) ==
    IF lo > hi THEN st
    ELSE IF lo = hi THEN ProcessEdge(st, edges[lo], lo - 1, dense)
    ELSE LET mid == (lo + hi) \div 2
             left == EdgeLoop(st, edges, lo, mid, dense)
         IN  IF left.duplicateCount < 0
             THEN left
             ELSE EdgeLoop(left, edges, mid + 1, hi, dense)

---------------------------------------------------------------------------
(* Force-directed refinement: forceAtlas2.assign, an external library.     *)
(* The call and its settings are recorded; the positions it writes are     *)
(* marked by the iteration count on every coordinate.                      *)

NoFa2 ==
    [called |-> FALSE, iterations |-> 0, gravityHundredths |-> 0,
     scalingRatio |-> 0, slowDown |-> 0, linLogMode |-> FALSE,
     outboundAttractionDistribution |-> FALSE, adjustSizes |-> FALSE,
     edgeWeightInfluenceHundredths |-> 0]

WordFa2 ==
    [called |-> TRUE, iterations |-> 20, gravityHundredths |-> 1,
     scalingRatio |-> 5, slowDown |-> 20, linLogMode |-> FALSE,
     outboundAttractionDistribution |-> FALSE, adjustSizes |-> FALSE,
     edgeWeightInfluenceHundredths |-> 5]

OverviewFa2 ==
    [called |-> TRUE, iterations |-> 50, gravityHundredths |-> 3,
     scalingRatio |-> 15, slowDown |-> 15, linLogMode |-> TRUE,
     outboundAttractionDistribution |-> TRUE, adjustSizes |-> TRUE,
     edgeWeightInfluenceHundredths |-> 20]

\* the positions after forceAtlas2.assign with the preset
Refined(nodes, preset) ==
    [k \in 1..Len(nodes) |->
        [nodes[k] EXCEPT !.x.it = preset.iterations, !.y.it = preset.iterations]]

---------------------------------------------------------------------------
(* The view: GraphVisualization at mount.                                  *)

MIN_GRAPH_LIMIT == 10
MAX_GRAPH_LIMIT == 1000
DEFAULT_GRAPH_LIMIT == 200

SearchTypeWord == <<"w", "o", "r", "d">>
SearchTypeMorpheme == <<"m", "o", "r", "p", "h", "e", "m", "e">>

\* useState<GraphQueryFilters>({ limit: DEFAULT_GRAPH_LIMIT }); an absent key is Undefined
InitialFilters ==
    [limit |-> DEFAULT_GRAPH_LIMIT, textId |-> Undefined, language |-> Undefined,
     nodeTypes |-> Undefined, searchWord |-> Undefined, searchType |-> Undefined]

\* the state of the first render: no effect has run yet, LoadGraph is about
\* to run its effect
ViewInit ==
    /\ searchDeps = <<>>
    /\ graphFilters = InitialFilters
    /\ refreshKey = 0
    /\ hasData = Null
    /\ connectionError = Null
    /\ activeTextId = Null
    /\ reactPc = "effect"
    /\ cycles = <<>>
    /\ graphLoadedBy = 0
    /\ dataLoadedBy = <<>>
    /\ triggers = 0


\* the state of the first render of SearchBar
BarInit ==
    /\ searchQuery = <<>>
    /\ barSearchType = SearchTypeMorpheme
    /\ results = <<>>
    /\ isSearching = FALSE
    /\ showResults = FALSE
    /\ searches = <<>>
    /\ handled = 0
    /\ reported = [called |-> FALSE, results |-> <<>>]
---------------------------------------------------------------------------
(* Raw inputs of the model.                                                *)

IdA == <<"a">>
IdB == <<"b">>
IdC == <<"c">>
IdOne == <<"1">>
IdMissing == <<"z", "z", "z">>
SomeLabel == <<"L">>
SomeColor == <<"#", "f", "0", "0">>
SomeEdgeId == <<"e", "1">>
SomeRelation == <<"P", "A", "R", "T", "_", "O", "F">>
CustomType == <<"N", "o", "t", "e">>

\* sequences over pool of length 0..maxLen
BoundedSeq(pool, maxLen) == UNION {[1..len -> pool] : len \in 0..maxLen}

\* count copies of record
Repeat(record, count) == [k \in 1..count |-> record]

TextA == NodeRec(Str(IdA), Str(TypeText), Undefined, Undefined, Undefined, Undefined)
SectionB == NodeRec(Str(IdB), Str(TypeSection), Undefined, Undefined, Undefined, Undefined)
WordOne == NodeRec(Str(IdOne), Str(TypeWord), Undefined, Num(7), Undefined, Undefined)

NodePool ==
    { TextA,
      NodeRec(Str(IdA), Str(TypeSection), Str(SomeLabel), Num(30), Str(SomeColor), Obj(1)),
      SectionB,
      NodeRec(Str(IdB), Str(TypeWord), Str(SomeLabel), Num(0), Undefined, Obj(1)),
      NodeRec(Num(1), Str(TypeSection), Str(SomeLabel), Undefined, Undefined, Undefined),
      WordOne,
      NodeRec(Str(IdC), Str(CustomType), Undefined, Num(-5), Str(SomeColor), Undefined),
      NodeRec(Str(IdC), Str(TypeWord), Str(<<>>), Undefined, Undefined, Undefined),
      NodeRec(Undefined, Undefined, Undefined, Undefined, Undefined, Undefined),
      NullNodeRec }

NodeTypeValues ==
    {Str(TypeText), Str(TypeSection), Str(TypePhrase), Str(TypeWord),
     Str(TypeMorpheme), Str(TypeGloss), Str(CustomType), Undefined}

NodeSizeValues == {Undefined, Num(0), Num(7), Num(30), Num(-5)}

\* one record of every type with every size
SizedNodePool ==
    {NodeRec(Str(IdA), type, Undefined, size, Undefined, Undefined) :
        type \in NodeTypeValues, size \in NodeSizeValues}

EdgeAB == EdgeRec(Undefined, Str(IdA), Str(IdB), Undefined, Undefined, Undefined)
EdgeBA == EdgeRec(Undefined, Str(IdB), Str(IdA), Undefined, Num(0), Undefined)
EdgeAMissing == EdgeRec(Undefined, Str(IdA), Str(IdMissing), Undefined, Undefined, Undefined)
EdgeAA == EdgeRec(Undefined, Str(IdA), Str(IdA), Undefined, Undefined, Undefined)

EdgePool ==
    { EdgeAB,
      EdgeRec(Str(SomeEdgeId), Str(<<" ">> \o IdA), Str(IdB), Str(SomeRelation), Num(5), Str(SomeColor)),
      EdgeBA,
      EdgeAMissing,
      EdgeRec(Undefined, Str(IdMissing), Str(IdA), Undefined, Num(3), Undefined),
      EdgeRec(Undefined, Undefined, Str(IdB), Undefined, Undefined, Undefined),
      EdgeRec(Undefined, Str(IdA), Str(<<" ">>), Undefined, Undefined, Undefined),
      EdgeRec(Undefined, Num(1), Str(IdA), Str(SomeRelation), Num(-3), Undefined),
      EdgeRec(Str(SomeEdgeId), Str(IdB), Str(IdB), Undefined, Num(1), Undefined),
      NullEdgeRec }

Payload(nodesPresent, nodes, edgesPresent, edges) ==
    [nodesPresent |-> nodesPresent, nodes |-> nodes,
     edgesPresent |-> edgesPresent, edges |-> edges]

\* any node sequence with a fixed pair of edges, in both modes
GeneralInputs ==
    {[data |-> Payload(TRUE, nodes, TRUE, <<EdgeAB, EdgeBA>>), mode |-> mode] :
        nodes \in BoundedSeq(NodePool, MaxNodes), mode \in BOOLEAN}

\* no nodes or no node array, with and without edges
EmptyInputs ==
    {[data |-> Payload(present, <<>>, TRUE, edges), mode |-> mode] :
        present \in BOOLEAN, edges \in {<<>>, <<EdgeAB>>, <<EdgeAB, EdgeAMissing>>},
        mode \in BOOLEAN}
    \cup
    {[data |-> Payload(present, <<>>, FALSE, <<>>), mode |-> mode] :
        present \in BOOLEAN, mode \in BOOLEAN}

\* one node of every type and size, no edge array
SizedInputs ==
    {[data |-> Payload(TRUE, <<node>>, FALSE, <<>>), mode |-> FALSE] :
        node \in SizedNodePool}

\* three nodes a, b, 1 with any edge sequence
EdgeInputs ==
    {[data |-> Payload(TRUE, <<TextA, SectionB, WordOne>>, TRUE, edges), mode |-> FALSE] :
        edges \in BoundedSeq(EdgePool, MaxEdges)}

\* payloads at the two thresholds of the dense classification
DenseInputs ==
    {[data |-> Payload(TRUE, Repeat(TextA, count), TRUE, <<EdgeAA>>), mode |-> FALSE] :
        count \in {DenseNodeCount, DenseNodeCount + 1}}
    \cup
    {[data |-> Payload(TRUE, <<TextA, SectionB>>, TRUE,
                       head \o Repeat(EdgeAB, DenseEdgeCount)),
      mode |-> FALSE] :
        head \in {<<>>, <<EdgeAMissing>>}}

\* a record whose id is the empty string, alone and between two others
EmptyIdWord == NodeRec(Str(<<>>), Str(TypeWord), Undefined, Undefined, Undefined, Undefined)

EmptyIdInputs ==
    {[data |-> Payload(TRUE, nodes, TRUE, <<EdgeAB>>), mode |-> mode] :
        nodes \in {<<EmptyIdWord>>, <<TextA, EmptyIdWord, SectionB>>},
        mode \in BOOLEAN}

\* ids that contain the arrow of the edge key: the pairs (a→b, c) and (a, b→c)
PlainWord(id) == NodeRec(Str(id), Str(TypeWord), Undefined, Undefined, Undefined, Undefined)
PlainEdge(sourceId, targetId) ==
    EdgeRec(Undefined, Str(sourceId), Str(targetId), Undefined, Undefined, Undefined)

ArrowIdInputs ==
    {[data |-> Payload(TRUE,
                       <<PlainWord(<<"a", "→", "b">>), PlainWord(IdC), PlainWord(IdA),
                         PlainWord(<<"b", "→", "c">>)>>,
                       TRUE,
                       <<PlainEdge(<<"a", "→", "b">>, IdC), PlainEdge(IdA, <<"b", "→", "c">>)>>),
      mode |-> FALSE]}

\* a node id with a leading blank, and an edge that names it
PaddedIdInputs ==
    {[data |-> Payload(TRUE, <<PlainWord(<<" ", "a">>), PlainWord(IdB)>>,
                       TRUE, <<PlainEdge(<<" ", "a">>, IdB)>>),
      mode |-> FALSE]}

\* an edge whose id is a number
NumberedEdgeInputs ==
    {[data |-> Payload(TRUE, <<TextA, SectionB>>, TRUE,
                       <<EdgeRec(Num(7), Str(IdA), Str(IdB), Undefined, Undefined, Undefined)>>),
      mode |-> FALSE]}

Inputs ==
    GeneralInputs \cup EmptyInputs \cup SizedInputs \cup EdgeInputs \cup DenseInputs
        \cup EmptyIdInputs \cup ArrowIdInputs \cup PaddedIdInputs
        \cup NumberedEdgeInputs

---------------------------------------------------------------------------
(* The build.                                                              *)

Init ==
    /\ \E inp \in Inputs :
          /\ data = inp.data
          /\ isWordVisualization = inp.mode
    /\ pc = "start"
    /\ i = 1
    /\ sectionCounter = 0
    /\ sectionIdMap = <<>>
    /\ graph = EmptyGraph
    /\ isDenseGraph = FALSE
    /\ addedEdges = {}
    /\ duplicateCount = 0
    /\ fa2 = NoFa2
    /\ searchWord = Undefined
    /\ searchType = Str(SearchTypeWord)
    /\ ViewInit
    /\ BarInit

\* const graph = new MultiDirectedGraph(); the guard of the first pass
StepStart ==
    /\ UNCHANGED <<viewVars, barVars>>
    /\ pc = "start"
    /\ pc' = IF HasRecords(data.nodesPresent, data.nodes) THEN "sections" ELSE "nodes"
    /\ UNCHANGED <<data, isWordVisualization, i, sectionCounter, sectionIdMap,
                   graph, isDenseGraph, addedEdges, duplicateCount, fa2>>

\* one iteration of the first pass; reading .type of a null entry throws
StepCollectSection ==
    /\ UNCHANGED <<viewVars, barVars>>
    /\ pc = "sections"
    /\ i <= Len(data.nodes)
    /\ LET node == data.nodes[i]
           sec == CollectSection([map |-> sectionIdMap, counter |-> sectionCounter], node)
       IN  IF node.t # "object"
           THEN /\ pc' = "raised"
                /\ UNCHANGED <<i, sectionCounter, sectionIdMap>>
           ELSE /\ sectionIdMap' = sec.map
                /\ sectionCounter' = sec.counter
                /\ i' = IF i = Len(data.nodes) THEN 1 ELSE i + 1
                /\ pc' = IF i = Len(data.nodes) THEN "nodes" ELSE "sections"
    /\ UNCHANGED <<data, isWordVisualization, graph, isDenseGraph, addedEdges,
                   duplicateCount, fa2>>

\* one iteration of the second pass
StepAddNode ==
    /\ UNCHANGED <<viewVars, barVars>>
    /\ pc = "nodes"
    /\ HasRecords(data.nodesPresent, data.nodes)
    /\ i <= Len(data.nodes)
    /\ LET node == data.nodes[i] IN
       IF node.t # "object"
       THEN /\ pc' = "raised"
            /\ UNCHANGED <<i, graph>>
       ELSE /\ graph' = AddNodeRecord(graph, node, sectionIdMap)
            /\ i' = IF i = Len(data.nodes) THEN 1 ELSE i + 1
            /\ pc' = IF i = Len(data.nodes) THEN "layout" ELSE "nodes"
    /\ UNCHANGED <<data, isWordVisualization, sectionCounter, sectionIdMap,
                   isDenseGraph, addedEdges, duplicateCount, fa2>>

\* the else branch: no data, one message node, no layout and no edges
StepPlaceholder ==
    /\ UNCHANGED <<viewVars, barVars>>
    /\ pc = "nodes"
    /\ ~HasRecords(data.nodesPresent, data.nodes)
    /\ graph' = [graph EXCEPT !.nodes = Append(@, PlaceholderNode)]
    /\ pc' = "refine"
    /\ UNCHANGED <<data, isWordVisualization, i, sectionCounter, sectionIdMap,
                   isDenseGraph, addedEdges, duplicateCount, fa2>>

\* if (isWordVisualization) applyWordLayout(graph)
StepWordLayout ==
    /\ UNCHANGED <<viewVars, barVars>>
    /\ pc = "layout"
    /\ isWordVisualization
    /\ graph' = [graph EXCEPT !.nodes = applyWordLayout(@)]
    /\ pc' = "edgesInit"
    /\ UNCHANGED <<data, isWordVisualization, i, sectionCounter, sectionIdMap,
                   isDenseGraph, addedEdges, duplicateCount, fa2>>

\* else applyRadialLayout(graph)
StepRadialLayout ==
    /\ UNCHANGED <<viewVars, barVars>>
    /\ pc = "layout"
    /\ ~isWordVisualization
    /\ graph' = [graph EXCEPT !.nodes = applyRadialLayout(@)]
    /\ pc' = "edgesInit"
    /\ UNCHANGED <<data, isWordVisualization, i, sectionCounter, sectionIdMap,
                   isDenseGraph, addedEdges, duplicateCount, fa2>>

\* the guard of the edge block and its locals
StepBeginEdges ==
    /\ UNCHANGED <<viewVars, barVars>>
    /\ pc = "edgesInit"
    /\ IF HasRecords(data.edgesPresent, data.edges)
       THEN /\ isDenseGraph' = IsDense(IF data.nodesPresent THEN Len(data.nodes) ELSE 0,
                                       Len(data.edges))
            /\ addedEdges' = {}
            /\ duplicateCount' = 0
            /\ i' = 1
            /\ pc' = "edges"
       ELSE /\ pc' = "refine"
            /\ UNCHANGED <<isDenseGraph, addedEdges, duplicateCount, i>>
    /\ UNCHANGED <<data, isWordVisualization, sectionCounter, sectionIdMap, graph, fa2>>

\* StepAddEdge leaving the loop at the first record it does not accept
StepAddEdgeStopping ==
    /\ UNCHANGED <<viewVars, barVars>>
    /\ pc = "edges"
    /\ i <= Len(data.edges)
    /\ LET st == ProcessEdge([graph |-> graph, addedEdges |-> addedEdges,
                              duplicateCount |-> duplicateCount],
                             data.edges[i], i - 1, isDenseGraph)
           more == i < Len(data.edges) /\ Len(st.graph.edges) > Len(graph.edges)
       IN  /\ graph' = st.graph
           /\ addedEdges' = st.addedEdges
           /\ duplicateCount' = st.duplicateCount
           /\ i' = IF more THEN i + 1 ELSE 1
           /\ pc' = IF more THEN "edges" ELSE "refine"
    /\ UNCHANGED <<data, isWordVisualization, sectionCounter, sectionIdMap,
                   isDenseGraph, fa2>>

\* one iteration of the edge forEach
StepAddEdge ==
    /\ UNCHANGED <<viewVars, barVars>>
    /\ pc = "edges"
    /\ i <= Len(data.edges)
    /\ LET st == ProcessEdge([graph |-> graph, addedEdges |-> addedEdges,
                              duplicateCount |-> duplicateCount],
                             data.edges[i], i - 1, isDenseGraph)
       IN  /\ graph' = st.graph
           /\ addedEdges' = st.addedEdges
           /\ duplicateCount' = st.duplicateCount
    /\ i' = IF i = Len(data.edges) THEN 1 ELSE i + 1
    /\ pc' = IF i = Len(data.edges) THEN "refine" ELSE "edges"
    /\ UNCHANGED <<data, isWordVisualization, sectionCounter, sectionIdMap,
                   isDenseGraph, fa2>>

\* StepForceAtlas2 with the presets of the two branches exchanged
StepForceAtlas2Swapped ==
    /\ UNCHANGED <<viewVars, barVars>>
    /\ pc = "refine"
    /\ IF Len(graph.nodes) > 0
       THEN LET preset == IF isWordVisualization THEN OverviewFa2 ELSE WordFa2 IN
            /\ fa2' = preset
            /\ graph' = [graph EXCEPT !.nodes = Refined(@, preset)]
       ELSE UNCHANGED <<fa2, graph>>
    /\ pc' = "done"
    /\ UNCHANGED <<data, isWordVisualization, i, sectionCounter, sectionIdMap,
                   isDenseGraph, addedEdges, duplicateCount>>

\* if (graph.order > 0) forceAtlas2.assign(graph, preset of the mode); return graph
StepForceAtlas2 ==
    /\ UNCHANGED <<viewVars, barVars>>
    /\ pc = "refine"
    /\ IF Len(graph.nodes) > 0
       THEN LET preset == IF isWordVisualization THEN WordFa2 ELSE OverviewFa2 IN
            /\ fa2' = preset
            /\ graph' = [graph EXCEPT !.nodes = Refined(@, preset)]
       ELSE UNCHANGED <<fa2, graph>>
    /\ pc' = "done"
    /\ UNCHANGED <<data, isWordVisualization, i, sectionCounter, sectionIdMap,
                   isDenseGraph, addedEdges, duplicateCount>>

Next ==
    \/ StepStart
    \/ StepCollectSection
    \/ StepAddNode
    \/ StepPlaceholder
    \/ StepWordLayout
    \/ StepRadialLayout
    \/ StepBeginEdges
    \/ StepAddEdge
    \/ StepForceAtlas2

Spec == Init /\ [][Next]_vars

---------------------------------------------------------------------------
(* Vocabulary of the properties.                                           *)

NodesGiven == HasRecords(data.nodesPresent, data.nodes)
EdgesGiven == HasRecords(data.edgesPresent, data.edges)

\* the id of the k-th raw node record, coerced to a string
RawNodeId(k) == ToString(data.nodes[k].id)

\* positions of the raw node records the second pass has gone through
NodesProcessed ==
    IF pc = "nodes" THEN 1..(i - 1)
    ELSE IF pc \in {"layout", "edgesInit", "edges", "refine", "done"}
         THEN 1..Len(data.nodes)
         ELSE {}

\* position of the first raw node record with this id
FirstRecordWith(key) ==
    CHOOSE k \in 1..Len(data.nodes) :
        /\ RawNodeId(k) = key
        /\ \A j \in 1..(k - 1) : RawNodeId(j) # key

\* the Section nodes of the graph, in insertion order
SectionNodes == SelectSeq(graph.nodes, LAMBDA attrs : attrs.nodeType = Str(TypeSection))

\* a record that passes the structural checks; its trimmed source and target
WellFormedEdge(edge) ==
    /\ edge.t = "object"
    /\ Truthy(edge.source)
    /\ Truthy(edge.target)
    /\ Trim(ToString(edge.source)) # <<>>
    /\ Trim(ToString(edge.target)) # <<>>
EdgeSourceOf(edge) == Trim(ToString(edge.source))
EdgeTargetOf(edge) == Trim(ToString(edge.target))

\* a well-formed record naming a node that is not in the graph
Dangling(edge) ==
    /\ WellFormedEdge(edge)
    /\ \/ ~HasNode(graph, EdgeSourceOf(edge))
       \/ ~HasNode(graph, EdgeTargetOf(edge))

\* some edge of the graph joins the ordered pair
PairAccepted(g, sourceId, targetId) ==
    \E k \in 1..Len(g.edges) :
        g.edges[k].source = sourceId /\ g.edges[k].target = targetId

\* a step of the edge loop that accepted its record
EdgeAcceptedStep == pc = "edges" /\ Len(graph'.edges) = Len(graph.edges) + 1

\* a sequence without its k-th element
RemoveAt(seq, k) == SubSeq(seq, 1, k - 1) \o SubSeq(seq, k + 1, Len(seq))

\* what a build of the same nodes accepts from another raw edge sequence
EdgesBuiltFrom(edges) ==
    EdgeLoop([graph |-> [graph EXCEPT !.edges = <<>>], addedEdges |-> {},
              duplicateCount |-> 0],
             edges, 1, Len(edges), IsDense(Len(data.nodes), Len(edges))).graph.edges

\* the ordered pair and the resolved styling of the edges
EdgeStyles(edges) ==
    [k \in 1..Len(edges) |->
        [source |-> edges[k].source, target |-> edges[k].target,
         size |-> edges[k].size, color |-> edges[k].color,
         relationshipType |-> edges[k].relationshipType]]

\* the floor of a category, 0 where there is none
CategoryFloor(type) ==
    CASE type = Str(TypeText) -> 25
      [] type = Str(TypeSection) -> 18
      [] type = Str(TypePhrase) -> 12
      [] type = Str(TypeWord) -> 8
      [] type = Str(TypeGloss) -> 6
      [] type = Str(TypeMorpheme) -> 5
      [] OTHER -> 0

HasFloor(type) ==
    type \in {Str(TypeText), Str(TypeSection), Str(TypePhrase), Str(TypeWord),
              Str(TypeGloss), Str(TypeMorpheme)}

\* max(floor, supplied), the supplied size unchanged where there is no floor
FlooredSize(type, supplied) ==
    IF HasFloor(type) THEN Max(CategoryFloor(type), supplied) ELSE supplied

\* the band of the k-th node of the graph: its size, and the place of the node in it
SameCategory(k) == {j \in 1..Len(graph.nodes) : graph.nodes[j].nodeType = graph.nodes[k].nodeType}
BandSize(k) == Cardinality(SameCategory(k))
BandPlace(k) == Cardinality({j \in SameCategory(k) : j < k})
CategoryLevel(type) ==
    CASE type = Str(TypeText) -> 0
      [] type = Str(TypeSection) -> 1
      [] type = Str(TypePhrase) -> 2
      [] type = Str(TypeWord) -> 3
      [] type = Str(TypeMorpheme) -> 4
      [] type = Str(TypeGloss) -> 5

---------------------------------------------------------------------------
(* C1 *)

\* C1 as stated: for any raw node sequence the finished graph holds as many
\* nodes as there are distinct ids (after String coercion) in the sequence.
C1_NodeCountIsDistinctIds ==
    pc = "done" =>
        Len(graph.nodes) = Cardinality({RawNodeId(k) : k \in 1..Len(data.nodes)})

\* C1 amended: for any non-empty raw node sequence, the graph holds exactly one
\* node per distinct coerced id of the records gone through so far, and a record
\* whose id is already in the graph leaves the graph as it is.
C1_OneNodePerDistinctId ==
    /\ [](NodesGiven =>
            /\ NodeKeys(graph) = {RawNodeId(k) : k \in NodesProcessed}
            /\ Len(graph.nodes) = Cardinality({RawNodeId(k) : k \in NodesProcessed}))
    /\ [][(pc = "nodes" /\ NodesGiven /\ HasNode(graph, RawNodeId(i)))
            => (graph' = graph)]_vars

\* a finished build whose raw sequence repeats an id, also across number and string
C1_Witness ==
    /\ pc = "done"
    /\ Len(data.nodes) = 3
    /\ Len(graph.nodes) = 2
    /\ data.nodes[1].id = Num(1)
    /\ data.nodes[3].id = Str(IdOne)

---------------------------------------------------------------------------
(* C2 *)

\* C2: the node kept for an id has the label, size, colour, category and
\* properties resolved from the first raw record with that id, never a later one.
C2_FirstRecordWins ==
    NodesGiven =>
        \A k \in 1..Len(graph.nodes) :
            LET attrs == graph.nodes[k]
                first == data.nodes[FirstRecordWith(attrs.key)]
            IN  /\ attrs.label = ResolveNodeLabel(first, attrs.key, sectionIdMap)
                /\ attrs.size = ResolveNodeSize(first)
                /\ attrs.color = ToString(OrElse(first.color, Str(DefaultNodeColor)))
                /\ attrs.nodeType = first.type
                /\ attrs.properties = OrElse(first.properties, Obj(0))

\* a finished build with two records of one id that differ in every attribute
C2_Witness ==
    /\ pc = "done"
    /\ Len(data.nodes) >= 2
    /\ RawNodeId(1) = RawNodeId(2)
    /\ data.nodes[1].type # data.nodes[2].type
    /\ data.nodes[1].label # data.nodes[2].label
    /\ data.nodes[1].size # data.nodes[2].size
    /\ data.nodes[1].color # data.nodes[2].color
    /\ data.nodes[1].properties # data.nodes[2].properties
    /\ Len(graph.nodes) = 1

---------------------------------------------------------------------------
(* C3 *)

\* C3: every edge of the graph joins two nodes of the graph; a record naming a
\* missing node is dropped; the edge block never changes the nodes.
C3_EdgesResolveAndNodesKept ==
    /\ [](\A k \in 1..Len(graph.edges) :
            /\ HasNode(graph, graph.edges[k].source)
            /\ HasNode(graph, graph.edges[k].target))
    /\ [][(pc \in {"edgesInit", "edges"}) => (graph'.nodes = graph.nodes)]_vars
    /\ [][(pc = "edges" /\ Dangling(data.edges[i])) => (graph' = graph)]_vars

\* a finished build that met a dangling record and accepted another edge
C3_Witness ==
    /\ pc = "done"
    /\ EdgesGiven
    /\ \E k \in 1..Len(data.edges) : Dangling(data.edges[k])
    /\ Len(graph.edges) >= 1

---------------------------------------------------------------------------
(* C4 *)

\* C4: no two edges of the graph join the same ordered pair, and a record whose
\* ordered pair has been accepted is dropped, whatever its id or type, and raises
\* the duplicate counter by exactly 1.
C4_OneEdgePerOrderedPair ==
    /\ [](\A j, k \in 1..Len(graph.edges) :
            (graph.edges[j].source = graph.edges[k].source
             /\ graph.edges[j].target = graph.edges[k].target) => j = k)
    /\ [][(/\ pc = "edges"
           /\ WellFormedEdge(data.edges[i])
           /\ PairAccepted(graph, EdgeSourceOf(data.edges[i]), EdgeTargetOf(data.edges[i])))
          => (graph' = graph /\ duplicateCount' = duplicateCount + 1)]_vars

\* a finished build that dropped a record with an accepted pair but another id and type
C4_Witness ==
    /\ pc = "done"
    /\ duplicateCount = 1
    /\ Len(graph.edges) = 1
    /\ Len(data.edges) = 2
    /\ data.edges[1].id # data.edges[2].id
    /\ data.edges[1].type # data.edges[2].type

---------------------------------------------------------------------------
(* C5 *)

\* C5 as stated: taking a dangling record out of the raw edge sequence leaves
\* the accepted edges and their size, colour and relationship type as they are.
C5_DroppedEdgeAffectsNoOther ==
    (pc = "done" /\ NodesGiven /\ EdgesGiven) =>
        \A k \in 1..Len(data.edges) :
            Dangling(data.edges[k]) =>
                EdgeStyles(graph.edges) = EdgeStyles(EdgesBuiltFrom(RemoveAt(data.edges, k)))

---------------------------------------------------------------------------
(* C6 *)

\* C6 as stated: the Section nodes of the finished graph carry the labels
\* "1", "2", ..., "N" in their order of first appearance.
C6_SectionLabelsSequential ==
    pc = "done" =>
        \A k \in 1..Len(SectionNodes) : SectionNodes[k].label = NatToString(k)

---------------------------------------------------------------------------
(* C7 *)

\* C7: with an empty or absent raw node sequence the build yields exactly one
\* node, of category "Empty", and no edge, whatever the raw edges are.
C7_EmptyInputPlaceholder ==
    (pc = "done" /\ ~NodesGiven) =>
        /\ Len(graph.nodes) = 1
        /\ graph.nodes[1].nodeType = Str(TypeEmpty)
        /\ graph.edges = <<>>

\* a finished build of an absent node sequence with raw edges
C7_Witness ==
    /\ pc = "done"
    /\ ~data.nodesPresent
    /\ Len(data.edges) = 2

---------------------------------------------------------------------------
(* C8 *)

\* C8 as stated: a node's size is max(floor of its category, supplied size),
\* the supplied size being 10 when none is given.
C8_SizeFloorOfSupplied ==
    NodesGiven =>
        \A k \in 1..Len(graph.nodes) :
            LET first == data.nodes[FirstRecordWith(graph.nodes[k].key)]
                supplied == IF first.size = Undefined THEN 10 ELSE first.size.n
            IN  graph.nodes[k].size = FlooredSize(first.type, supplied)

\* C8 amended: a node's size is max(floor of its category, supplied size), the
\* supplied size being 10 when none is given or when 0 is given; a node of a
\* category without a floor gets that size unchanged.
C8_SizeFloorOfSuppliedOrDefault ==
    NodesGiven =>
        \A k \in 1..Len(graph.nodes) :
            LET first == data.nodes[FirstRecordWith(graph.nodes[k].key)]
                supplied == IF first.size = Undefined \/ first.size = Num(0)
                            THEN 10
                            ELSE first.size.n
            IN  graph.nodes[k].size = FlooredSize(first.type, supplied)

\* a finished build with a Word of supplied size 7, below its floor
C8_Witness ==
    /\ pc = "done"
    /\ Len(data.nodes) = 1
    /\ Len(graph.nodes) = 1
    /\ data.nodes[1].type = Str(TypeWord)
    /\ data.nodes[1].size = Num(7)
    /\ graph.nodes[1].size = 8

---------------------------------------------------------------------------
(* C9 *)

---------------------------------------------------------------------------
(* C10 *)

\* C10: in focused mode the initial layout puts the i-th node (0-based, in
\* insertion order) of an ordered category of N nodes at
\* x = -((N-1)*150)/2 + i*150 and y = levelIndex*100.
C10_BandedLayout ==
    (isWordVisualization /\ pc \in {"edgesInit", "edges", "refine"}) =>
        \A k \in 1..Len(graph.nodes) :
            HasFloor(graph.nodes[k].nodeType) =>
                /\ graph.nodes[k].x =
                      NumCoord(-(((BandSize(k) - 1) * 150) \div 2) + BandPlace(k) * 150)
                /\ graph.nodes[k].y =
                      NumCoord(CategoryLevel(graph.nodes[k].nodeType) * 100)

\* a focused build just laid out, with a band of three Words and a band of none
C10_Witness ==
    /\ pc = "edgesInit"
    /\ isWordVisualization
    /\ Len(graph.nodes) = 3
    /\ \A k \in 1..3 : graph.nodes[k].nodeType = Str(TypeWord)
    /\ graph.nodes[1].x = NumCoord(-150)
    /\ graph.nodes[3].x = NumCoord(150)
    /\ graph.nodes[3].y = NumCoord(300)

---------------------------------------------------------------------------
(* Vocabulary of the layout and refinement properties.                     *)

\* the nodes are laid out and not yet refined
LaidOut == pc \in {"edgesInit", "edges", "refine"}

\* the position of the k-th node on the band of its category
BandedX(k) == NumCoord(-(((BandSize(k) - 1) * 150) \div 2) + BandPlace(k) * 150)
BandedY(k) == NumCoord(CategoryLevel(graph.nodes[k].nodeType) * 100)

\* the position of the k-th node on the ring of its category
RingX(k) == CosCoord(CategoryLevel(graph.nodes[k].nodeType) * 200, BandPlace(k), BandSize(k))
RingY(k) == SinCoord(CategoryLevel(graph.nodes[k].nodeType) * 200, BandPlace(k), BandSize(k))

\* a coordinate after so many iterations of the refiner
After(coord, iterations) == [coord EXCEPT !.it = iterations]

\* the level a laid-out node stands on, read from its position: its y in
\* bands of 100, or the radius of its ring in steps of 200
LevelOf(k) ==
    IF isWordVisualization
    THEN graph.nodes[k].y.v \div 100
    ELSE graph.nodes[k].x.v \div 200

\* the ordered categories that have a node in the graph, as levels
PresentLevels ==
    {CategoryLevel(graph.nodes[k].nodeType) :
        k \in {j \in 1..Len(graph.nodes) : HasFloor(graph.nodes[j].nodeType)}}

\* the place of a category among the categories present
PresentRank(type) == Cardinality({l \in PresentLevels : l < CategoryLevel(type)})

---------------------------------------------------------------------------
(* C11 *)

\* C11: in overview mode the initial layout puts the i-th node (0-based) of an
\* ordered category of N nodes at x = r*cos(2*pi*i/N), y = r*sin(2*pi*i/N)
\* with r = levelIndex*200; on ring 0 that is the origin.
C11_RadialLayout ==
    (~isWordVisualization /\ LaidOut) =>
        \A k \in 1..Len(graph.nodes) :
            HasFloor(graph.nodes[k].nodeType) =>
                LET radius == CategoryLevel(graph.nodes[k].nodeType) * 200 IN
                /\ graph.nodes[k].x = CosCoord(radius, BandPlace(k), BandSize(k))
                /\ graph.nodes[k].y = SinCoord(radius, BandPlace(k), BandSize(k))
                /\ (radius = 0) =>
                      (graph.nodes[k].x = NumCoord(0) /\ graph.nodes[k].y = NumCoord(0))

\* an overview build just laid out: a Text at the origin and two Words on
\* the ring of radius 600, the second half a turn on
C11_Witness ==
    /\ pc = "edgesInit"
    /\ ~isWordVisualization
    /\ Len(graph.nodes) = 3
    /\ graph.nodes[1].nodeType = Str(TypeText)
    /\ graph.nodes[1].x = NumCoord(0)
    /\ graph.nodes[1].y = NumCoord(0)
    /\ graph.nodes[2].nodeType = Str(TypeWord)
    /\ graph.nodes[2].x = NumCoord(600)
    /\ graph.nodes[3].nodeType = Str(TypeWord)
    /\ graph.nodes[3].x = [f |-> "cos", v |-> 600, i |-> 1, n |-> 2, it |-> 0]
    /\ graph.nodes[3].y = [f |-> "sin", v |-> 600, i |-> 1, n |-> 2, it |-> 0]

---------------------------------------------------------------------------
(* C12 *)

\* C12 as stated: for a payload holding a node sequence and an edge sequence
\* the build never raises, whatever the records are.
C12_BuildNeverRaises == pc # "raised"

---------------------------------------------------------------------------
(* C13 *)

\* one iteration of the edge loop, as C13 has it
MalformedEdgeSkipped ==
    (pc = "edges") =>
        /\ (~WellFormedEdge(data.edges[i])) =>
              /\ graph' = graph
              /\ addedEdges' = addedEdges
              /\ duplicateCount' = duplicateCount
        /\ (i < Len(data.edges)) => (pc' = "edges" /\ i' = i + 1)
        /\ (i = Len(data.edges)) => (pc' = "refine")

\* C13: an edge record that is not an object, lacks source or target, or has
\* one empty after trimming adds nothing, and the loop goes on to the next
\* record in raw order until the last.
C13_MalformedEdgeRejectedLoopGoesOn == [][MalformedEdgeSkipped]_vars

\* the second record was accepted after the null first one was rejected
C13_Witness ==
    /\ pc = "edges"
    /\ i = 3
    /\ Len(data.edges) = 3
    /\ data.edges[1] = NullEdgeRec
    /\ data.edges[2] = EdgeAB
    /\ Len(graph.edges) = 1
    /\ graph.edges[1].source = IdA
    /\ graph.edges[1].target = IdB

---------------------------------------------------------------------------
(* C14 *)

\* C14 as stated: a record whose id does not coerce to a non-empty string
\* adds no node, so no node of the graph has the empty string as its id.
C14_EmptyIdAddsNoNode ==
    \A k \in 1..Len(graph.nodes) : graph.nodes[k].key # <<>>

---------------------------------------------------------------------------
(* C15 *)

\* C15 as stated: the bands or rings of the categories present are on
\* consecutive levels 0, 1, 2, ..., none left empty for an absent category.
C15_NoGapReserved ==
    LaidOut =>
        \A k \in 1..Len(graph.nodes) :
            HasFloor(graph.nodes[k].nodeType) =>
                LevelOf(k) = PresentRank(graph.nodes[k].nodeType)

\* C15 amended: a present category stands on the level of its index in the
\* fixed ordering, whichever of the categories before it are absent.
C15_LevelsKeepFixedIndex ==
    LaidOut =>
        \A k \in 1..Len(graph.nodes) :
            HasFloor(graph.nodes[k].nodeType) =>
                /\ LevelOf(k) = CategoryLevel(graph.nodes[k].nodeType)
                /\ LevelOf(k) >= PresentRank(graph.nodes[k].nodeType)

\* a focused build of Words only: the one band is on level 3, levels 0..2 empty
C15_Witness ==
    /\ pc = "edgesInit"
    /\ isWordVisualization
    /\ Len(graph.nodes) = 2
    /\ \A k \in 1..2 : graph.nodes[k].nodeType = Str(TypeWord)
    /\ PresentLevels = {3}
    /\ graph.nodes[1].y = NumCoord(300)
    /\ LevelOf(2) = 3

---------------------------------------------------------------------------
(* C16 *)

\* C16 as stated: with no node records the refiner is not run, and the
\* placeholder node is returned at the position it was created with.
C16_NoRefinementOfPlaceholder ==
    (pc = "done" /\ ~NodesGiven) =>
        /\ ~fa2.called
        /\ Len(graph.nodes) = 1
        /\ graph.nodes[1].x = NumCoord(50)
        /\ graph.nodes[1].y = NumCoord(50)

---------------------------------------------------------------------------
(* C17 *)

\* C17: the refiner runs with the preset of the build's mode (20 iterations
\* focused, 50 overview), and a finished build of node records has the
\* positions of the layout of that same mode, refined by that preset.
C17_ModeSelectsLayoutAndPreset ==
    /\ fa2.called => (fa2.iterations = IF isWordVisualization THEN 20 ELSE 50)
    /\ (pc = "done" /\ NodesGiven) =>
          /\ fa2.called
          /\ \A k \in 1..Len(graph.nodes) :
                HasFloor(graph.nodes[k].nodeType) =>
                    IF isWordVisualization
                    THEN /\ graph.nodes[k].x = After(BandedX(k), 20)
                         /\ graph.nodes[k].y = After(BandedY(k), 20)
                    ELSE /\ graph.nodes[k].x = After(RingX(k), 50)
                         /\ graph.nodes[k].y = After(RingY(k), 50)

\* a finished overview build: two Sections on the ring of radius 200,
\* refined by 50 iterations
C17_Witness ==
    /\ pc = "done"
    /\ ~isWordVisualization
    /\ fa2.iterations = 50
    /\ Len(graph.nodes) = 2
    /\ \A k \in 1..2 : graph.nodes[k].nodeType = Str(TypeSection)
    /\ graph.nodes[2].x = [f |-> "cos", v |-> 200, i |-> 1, n |-> 2, it |-> 50]

---------------------------------------------------------------------------
(* C18 *)

\* one step of the build, as C18 has it
PositionsKept ==
    /\ (pc' \in {"sections", "nodes", "layout"}) =>
          \A k \in 1..Len(graph'.nodes) :
              /\ graph'.nodes[k].x = NumCoord(0)
              /\ graph'.nodes[k].y = NumCoord(0)
    /\ (pc \notin {"layout", "refine"}) =>
          /\ Len(graph'.nodes) >= Len(graph.nodes)
          /\ \A k \in 1..Len(graph.nodes) :
                /\ graph'.nodes[k].x = graph.nodes[k].x
                /\ graph'.nodes[k].y = graph.nodes[k].y

\* C18: every node made from a record is at (0,0) until the initial layout
\* runs, and no step other than the layout and the refiner changes the x or
\* y of a node.
C18_OnlyLayoutAndRefinerMoveNodes == [][PositionsKept]_vars

\* an overview build in its edge loop: an edge accepted, the Section still
\* where the radial layout put it
C18_Witness ==
    /\ pc = "edges"
    /\ ~isWordVisualization
    /\ Len(graph.edges) = 1
    /\ Len(graph.nodes) = 3
    /\ graph.nodes[2].nodeType = Str(TypeSection)
    /\ graph.nodes[2].x = NumCoord(200)
    /\ graph.nodes[2].y = NumCoord(0)

---------------------------------------------------------------------------
(* The view: filters, fetch cycles and what each cycle delivers.           *)
(* A cycle is one run of the effect of LoadGraph: its AbortController      *)
(* (aborted), the filters it fetches with and the state of its loadData.   *)
(* When the transport settles, the rest of loadData runs in one step: no   *)
(* event is handled between the settling of a promise and the code that    *)
(* awaits it.  The transport is the browser's fetch with the controller's  *)
(* signal: once aborted, a pending request can only reject as aborted.     *)

Bool(b) == [t |-> "boolean", n |-> IF b THEN 1 ELSE 0, s |-> <<>>]
\* a number that is not finite
NaN == [t |-> "number", n |-> 0, s |-> <<"N", "a", "N">>]
\* an array of strings
Arr(items) == [t |-> "array", n |-> 0, s |-> items]

Min(a, b) == IF a <= b THEN a ELSE b

\* hay.includes(needle)
Includes(hay, needle) ==
    \E k \in 1..(Len(hay) - Len(needle) + 1) :
        SubSeq(hay, k, k + Len(needle) - 1) = needle

clampLimitValue(value) ==
    LET numeric == IF value.t = "number" /\ value.s = <<>>
                   THEN value.n
                   ELSE DEFAULT_GRAPH_LIMIT
    IN  Min(MAX_GRAPH_LIMIT, Max(MIN_GRAPH_LIMIT, numeric))

sanitizeOptionalString(value) ==
    IF value.t # "string" THEN Undefined
    ELSE LET trimmed == Trim(value.s) IN
         IF Len(trimmed) > 0 THEN Str(trimmed) ELSE Undefined

\* arraysMatch comparing the two arrays by identity
arraysMatchByIdentity(a, b) == a.t # "array" /\ b.t # "array"

arraysMatch(a, b) ==
    IF a.t # "array" /\ b.t # "array" THEN TRUE
    ELSE IF a.t # "array" \/ b.t # "array" THEN FALSE
    ELSE IF Len(a.s) # Len(b.s) THEN FALSE
    ELSE \A k \in 1..Len(a.s) : a.s[k] = b.s[k]

\* update.nodeTypes?.map(trim).filter(non-empty) ?? undefined
CleanNodeTypes(value) ==
    IF value.t # "array" THEN Undefined
    ELSE Arr(SelectSeq([k \in 1..Len(value.s) |-> Trim(value.s[k])],
                       LAMBDA cs : Len(cs) > 0))

\* the limit block of the updater, on [filters, hasChanges]
LimitStep(st, update) ==
    IF "limit" \in update.keys /\ update.limit # Undefined
    THEN LET sanitizedLimit == clampLimitValue(update.limit) IN
         IF sanitizedLimit # st.filters.limit
         THEN [filters |-> [st.filters EXCEPT !.limit = sanitizedLimit], hasChanges |-> TRUE]
         ELSE st
    ELSE st

\* the textId block and the language block of the updater
StringStep(st, update, key) ==
    IF key \in update.keys
    THEN LET sanitized == sanitizeOptionalString(update[key])
             current == st.filters[key]
         IN  IF sanitized # Undefined /\ sanitized # current
             THEN [filters |-> [st.filters EXCEPT ![key] = sanitized], hasChanges |-> TRUE]
             ELSE IF sanitized = Undefined /\ current # Undefined
                  THEN [filters |-> [st.filters EXCEPT ![key] = Undefined], hasChanges |-> TRUE]
                  ELSE st
    ELSE st

\* the nodeTypes block of the updater
NodeTypesStep(st, update) ==
    IF "nodeTypes" \in update.keys
    THEN LET cleaned == CleanNodeTypes(update.nodeTypes)
             current == st.filters.nodeTypes
         IN  IF cleaned.t = "array" /\ ~arraysMatch(cleaned, current)
             THEN [filters |-> [st.filters EXCEPT !.nodeTypes = cleaned], hasChanges |-> TRUE]
             ELSE IF cleaned.t # "array" /\ current.t = "array"
                  THEN [filters |-> [st.filters EXCEPT !.nodeTypes = Undefined], hasChanges |-> TRUE]
                  ELSE st
    ELSE st

\* the updater passed to setGraphFilters: [filters, hasChanges], filters
\* being prev itself when nothing changed
FilterUpdater(prev, update) ==
    NodeTypesStep(
        StringStep(
            StringStep(
                LimitStep([filters |-> prev, hasChanges |-> FALSE], update),
                update, "textId"),
            update, "language"),
        update)

---------------------------------------------------------------------------
(* The transport and the three fetch functions.                            *)

AbortErrorName == <<"A", "b", "o", "r", "t", "E", "r", "r", "o", "r">>
TypeErrorName == <<"T", "y", "p", "e", "E", "r", "r", "o", "r">>

AbortError == [name |-> AbortErrorName, message |-> <<"T", "h", "e", " ", "o", "p", "e", "r", "a", "t", "i", "o", "n", " ", "w", "a", "s", " ", "a", "b", "o", "r", "t", "e", "d", ".">>]
NetworkError == [name |-> TypeErrorName, message |-> <<"F", "a", "i", "l", "e", "d", " ", "t", "o", " ", "f", "e", "t", "c", "h">>]
ParseError == [name |-> <<"S", "y", "n", "t", "a", "x", "E", "r", "r", "o", "r">>, message |-> <<"U", "n", "e", "x", "p", "e", "c", "t", "e", "d", " ", "t", "o", "k", "e", "n">>]
NoError == [name |-> <<>>, message |-> <<>>]
\* new Error(`${prefix}: ${response.status} ${response.statusText}`)
HttpError(prefix) == [name |-> <<"E", "r", "r", "o", "r">>, message |-> prefix \o <<":", " ", "5", "0", "0", " ">>]
BackendError ==
    [name |-> <<"E", "r", "r", "o", "r">>,
     message |-> <<"B", "a", "c", "k", "e", "n", "d", " ", "c", "o", "n", "n", "e", "c", "t", "i", "o", "n", " ", "f", "a", "i", "l", "e", "d", ".", " ", "P", "l", "e", "a", "s", "e", " ", "e", "n", "s", "u", "r", "e", " ", "t", "h", "e", " ", "b", "a", "c", "k", "e", "n", "d", " ", "s", "e", "r", "v", "e", "r", " ", "i", "s", " ", "r", "u", "n", "n", "i", "n", "g", ".">>]
\* what reading .type of a null node record throws
BuildError ==
    [name |-> TypeErrorName, message |-> <<"C", "a", "n", "n", "o", "t", " ", "r", "e", "a", "d", " ", "p", "r", "o", "p", "e", "r", "t", "i", "e", "s", " ", "o", "f", " ", "n", "u", "l", "l", " ", "(", "r", "e", "a", "d", "i", "n", "g", " ", "'", "t", "y", "p", "e", "'", ")">>]

\* { nodes: [], edges: [] }
EmptyData == Payload(TRUE, <<>>, TRUE, <<>>)

\* what the transport does with a request
Response(kind, responseData, error) == [kind |-> kind, data |-> responseData, error |-> error]

\* the outcome of an awaited fetch function
Resolved(resolvedData) == [ok |-> TRUE, data |-> resolvedData, error |-> NoError]
Rejected(error) == [ok |-> FALSE, data |-> EmptyData, error |-> error]

\* what the try block of a fetch function throws on a response without json
Thrown(response, prefix) ==
    CASE response.kind = "rejected" -> response.error
      [] response.kind = "status" -> HttpError(prefix)
      [] response.kind = "badJson" -> ParseError

\* fetchWordGraphData: every error is thrown on
fetchWordGraphData(response) ==
    IF response.kind = "json" THEN Resolved(response.data)
    ELSE Rejected(Thrown(response, <<"F", "a", "i", "l", "e", "d", " ", "t", "o", " ", "f", "e", "t", "c", "h", " ", "w", "o", "r", "d", " ", "g", "r", "a", "p", "h", " ", "d", "a", "t", "a">>))

\* fetchMorphemeGraphData: every error is thrown on
fetchMorphemeGraphData(response) ==
    IF response.kind = "json" THEN Resolved(response.data)
    ELSE Rejected(Thrown(response, <<"F", "a", "i", "l", "e", "d", " ", "t", "o", " ", "f", "e", "t", "c", "h", " ", "m", "o", "r", "p", "h", "e", "m", "e", " ", "g", "r", "a", "p", "h", " ", "d", "a", "t", "a">>))

\* fetchGraphData throwing the connection error for every failure, aborts too
fetchGraphDataAbortAsBackend(response) ==
    IF response.kind = "json" THEN Resolved(response.data)
    ELSE Rejected(BackendError)

\* fetchGraphData: aborts and connection errors are thrown, any other error
\* becomes an empty payload
fetchGraphData(response) ==
    IF response.kind = "json" THEN Resolved(response.data)
    ELSE LET err == Thrown(response, <<"F", "a", "i", "l", "e", "d", " ", "t", "o", " ", "f", "e", "t", "c", "h", " ", "g", "r", "a", "p", "h", " ", "d", "a", "t", "a">>) IN
         IF err.name = AbortErrorName THEN Rejected(err)
         ELSE IF \/ Includes(err.message, <<"E", "C", "O", "N", "N", "R", "E", "S", "E", "T">>)
                 \/ Includes(err.message, <<"s", "o", "c", "k", "e", "t", " ", "h", "a", "n", "g", " ", "u", "p">>)
                 \/ Includes(err.message, <<"F", "a", "i", "l", "e", "d", " ", "t", "o", " ", "f", "e", "t", "c", "h">>)
                 \/ err.name = TypeErrorName
              THEN Rejected(BackendError)
              ELSE Resolved(EmptyData)

\* the endpoint loadData chooses for its filters
FetchResult(filters, response) ==
    IF Truthy(filters.searchWord)
    THEN IF filters.searchType = Str(SearchTypeMorpheme)
         THEN fetchMorphemeGraphData(response)
         ELSE fetchWordGraphData(response)
    ELSE fetchGraphData(response)

\* buildGraphFromData throws on this payload (see StepCollectSection)
BuildRaises(payload) ==
    /\ HasRecords(payload.nodesPresent, payload.nodes)
    /\ \E k \in 1..Len(payload.nodes) : payload.nodes[k].t # "object"

---------------------------------------------------------------------------
(* Inputs of the view.                                                     *)

SomeWord == <<"c", "a", "t">>
SearchWords == {Undefined, Str(SomeWord)}
SearchTypes == {Str(SearchTypeWord), Str(SearchTypeMorpheme)}

SomeTextId == <<"t", "1">>
SomeLanguage == <<"e", "n">>

FilterUpdate(keys, limit, textId, language, nodeTypes) ==
    [keys |-> keys, limit |-> limit, textId |-> textId, language |-> language,
     nodeTypes |-> nodeTypes]

FilterUpdates ==
    { FilterUpdate({"limit"}, Num(50), Undefined, Undefined, Undefined),
      FilterUpdate({"limit"}, Num(5000), Undefined, Undefined, Undefined),
      FilterUpdate({"limit"}, NaN, Undefined, Undefined, Undefined),
      FilterUpdate({"limit"}, Undefined, Undefined, Undefined, Undefined),
      FilterUpdate({"textId"}, Undefined, Str(<<" ">> \o SomeTextId), Undefined, Undefined),
      FilterUpdate({"textId"}, Undefined, Null, Undefined, Undefined),
      FilterUpdate({"language"}, Undefined, Undefined, Str(SomeLanguage), Undefined),
      FilterUpdate({"language"}, Undefined, Undefined, Str(<<" ">>), Undefined),
      FilterUpdate({"nodeTypes"}, Undefined, Undefined, Undefined, Arr(<<TypeWord \o <<" ">>, <<>>>>)),
      FilterUpdate({"nodeTypes"}, Undefined, Undefined, Undefined, Arr(<<>>)),
      FilterUpdate({"nodeTypes"}, Undefined, Undefined, Undefined, Undefined),
      FilterUpdate({"limit", "textId"}, Num(50), Str(SomeTextId), Undefined, Undefined) }

\* the payloads the backend answers with
FetchPayloads ==
    { EmptyData,
      Payload(TRUE, <<TextA, SectionB>>, TRUE, <<EdgeAB>>),
      Payload(TRUE, <<NullNodeRec>>, TRUE, <<>>) }

\* what the transport may do with the request of a cycle
TransportResponses(cycle) ==
    IF cycle.aborted
    THEN {Response("rejected", EmptyData, AbortError)}
    ELSE {Response("json", payload, NoError) : payload \in FetchPayloads}
         \cup {Response("status", EmptyData, NoError),
               Response("rejected", EmptyData, NetworkError),
               Response("badJson", EmptyData, NoError)}

---------------------------------------------------------------------------
(* The handlers and effects of the view.                                   *)

\* no render or effect is pending
Quiet == reactPc = "idle" /\ searchDeps = <<searchWord, searchType>>

\* the effect of LoadGraph: a new controller, and loadData up to its await
RunEffect ==
    /\ reactPc = "effect"
    /\ cycles' = Append(cycles,
                        [filters |-> graphFilters,
                         isWordVisualization |-> Truthy(graphFilters.searchWord),
                         aborted |-> FALSE,
                         status |-> "pending"])
    /\ reactPc' = "idle"
    /\ UNCHANGED <<buildVars, barVars>>
    /\ UNCHANGED <<searchWord, searchType, searchDeps, graphFilters, refreshKey, hasData,
                   connectionError, activeTextId, graphLoadedBy, dataLoadedBy, triggers>>

\* Cleanup leaving the controller alone
CleanupWithoutAbort ==
    /\ reactPc \in {"unmount", "cleanup"}
    /\ graphLoadedBy' = IF reactPc = "unmount" THEN 0 ELSE graphLoadedBy
    /\ reactPc' = "effect"
    /\ UNCHANGED <<buildVars, barVars>>
    /\ UNCHANGED <<searchWord, searchType, searchDeps, graphFilters, refreshKey, hasData,
                   connectionError, activeTextId, cycles, dataLoadedBy, triggers>>

\* the cleanup of the effect of LoadGraph, run before the effect runs again
\* and when a new key replaces the SigmaContainer (with a new, empty sigma)
Cleanup ==
    /\ reactPc \in {"unmount", "cleanup"}
    /\ cycles' = [cycles EXCEPT ![Len(cycles)].aborted = TRUE]
    /\ graphLoadedBy' = IF reactPc = "unmount" THEN 0 ELSE graphLoadedBy
    /\ reactPc' = "effect"
    /\ UNCHANGED <<buildVars, barVars>>
    /\ UNCHANGED <<searchWord, searchType, searchDeps, graphFilters, refreshKey, hasData,
                   connectionError, activeTextId, dataLoadedBy, triggers>>

\* the page passes other props: handleVisualizeWord sets the word and the
\* type, handleClearVisualization takes the word away
SetSearch ==
    /\ Quiet
    /\ triggers < MaxTriggers
    /\ \E word \in SearchWords, type \in SearchTypes :
          /\ (word = Undefined) => (type = searchType)
          /\ <<word, type>> # <<searchWord, searchType>>
          /\ searchWord' = word
          /\ searchType' = type
    /\ UNCHANGED <<buildVars, barVars>>
    /\ UNCHANGED <<searchDeps, graphFilters, refreshKey, hasData, connectionError,
                   activeTextId, reactPc, cycles, graphLoadedBy, dataLoadedBy, triggers>>

\* useEffect(..., [searchWord, searchType]): at mount and when either changes
SearchEffect ==
    /\ reactPc = "idle"
    /\ searchDeps # <<searchWord, searchType>>
    /\ IF Truthy(searchWord)
       THEN /\ graphFilters' = [graphFilters EXCEPT !.searchWord = searchWord,
                                                    !.searchType = searchType]
            /\ connectionError' = Null
       ELSE /\ graphFilters' = [graphFilters EXCEPT !.searchWord = Undefined,
                                                    !.searchType = Undefined]
            /\ UNCHANGED connectionError
    /\ refreshKey' = refreshKey + 1
    /\ searchDeps' = <<searchWord, searchType>>
    /\ reactPc' = "unmount"
    /\ triggers' = triggers + 1
    /\ UNCHANGED <<buildVars, barVars>>
    /\ UNCHANGED <<searchWord, searchType, hasData, activeTextId, cycles, graphLoadedBy,
                   dataLoadedBy>>

\* HandleRefresh leaving the key as it is
HandleRefreshKeepingKey ==
    /\ Quiet
    /\ triggers < MaxTriggers
    /\ connectionError' = Null
    /\ triggers' = triggers + 1
    /\ UNCHANGED <<buildVars, barVars>>
    /\ UNCHANGED <<searchWord, searchType, searchDeps, graphFilters, refreshKey, hasData,
                   activeTextId, reactPc, cycles, graphLoadedBy, dataLoadedBy>>

HandleRefresh ==
    /\ Quiet
    /\ triggers < MaxTriggers
    /\ connectionError' = Null
    /\ refreshKey' = refreshKey + 1
    /\ reactPc' = "unmount"
    /\ triggers' = triggers + 1
    /\ UNCHANGED <<buildVars, barVars>>
    /\ UNCHANGED <<searchWord, searchType, searchDeps, graphFilters, hasData,
                   activeTextId, cycles, graphLoadedBy, dataLoadedBy>>

HandleFilterChange ==
    /\ Quiet
    /\ triggers < MaxTriggers
    /\ \E update \in FilterUpdates :
          LET st == FilterUpdater(graphFilters, update) IN
          /\ graphFilters' = st.filters
          /\ reactPc' = IF st.hasChanges THEN "cleanup" ELSE "idle"
          /\ triggers' = IF st.hasChanges THEN triggers + 1 ELSE triggers
    /\ UNCHANGED <<buildVars, barVars>>
    /\ UNCHANGED <<searchWord, searchType, searchDeps, refreshKey, hasData,
                   connectionError, activeTextId, cycles, graphLoadedBy, dataLoadedBy>>

\* the Text record handleDataLoaded finds, its id standing for the candidate
TextNodeOf(payload) ==
    LET found == SelectSeq(payload.nodes,
                           LAMBDA node : node.t = "object" /\ node.type = Str(TypeText))
    IN  IF payload.nodesPresent /\ Len(found) > 0 THEN found[1] ELSE NullNodeRec

\* handleDataLoaded(data), as the values of hasData and activeTextId after it
DataLoadedHasData(payload) ==
    Bool(\/ (payload.nodesPresent /\ Len(payload.nodes) > 0)
         \/ (payload.edgesPresent /\ Len(payload.edges) > 0))
DataLoadedTextId(payload, current) ==
    LET textNode == TextNodeOf(payload) IN
    IF textNode.t = "object" /\ Truthy(textNode.id)
    THEN Str(ToString(textNode.id))
    ELSE current

\* the transport settles the request of a cycle and loadData runs to its end
LoadDataSettles ==
    /\ \E c \in 1..Len(cycles) :
          /\ cycles[c].status = "pending"
          /\ \E response \in TransportResponses(cycles[c]) :
                LET result == FetchResult(cycles[c].filters, response)
                    error == IF result.ok THEN BuildError ELSE result.error
                IN
                IF result.ok /\ cycles[c].aborted
                THEN \* if (controller.signal.aborted) return
                     /\ cycles' = [cycles EXCEPT ![c].status = "dropped"]
                     /\ UNCHANGED <<hasData, connectionError, activeTextId,
                                    graphLoadedBy, dataLoadedBy>>
                ELSE IF result.ok /\ ~BuildRaises(result.data)
                THEN \* onDataLoaded, buildGraphFromData, loadGraph
                     /\ cycles' = [cycles EXCEPT ![c].status = "loaded"]
                     /\ hasData' = DataLoadedHasData(result.data)
                     /\ connectionError' = Null
                     /\ activeTextId' = DataLoadedTextId(result.data, activeTextId)
                     /\ dataLoadedBy' = Append(dataLoadedBy, c)
                     /\ graphLoadedBy' = c
                ELSE IF result.ok
                THEN \* onDataLoaded, then the build throws and onError gets it
                     /\ cycles' = [cycles EXCEPT ![c].status = "failed"]
                     /\ hasData' = Bool(FALSE)
                     /\ connectionError' = Str(error.message)
                     /\ activeTextId' = DataLoadedTextId(result.data, activeTextId)
                     /\ dataLoadedBy' = Append(dataLoadedBy, c)
                     /\ UNCHANGED graphLoadedBy
                ELSE IF error.name = AbortErrorName
                THEN \* if (err?.name === "AbortError") return
                     /\ cycles' = [cycles EXCEPT ![c].status = "dropped"]
                     /\ UNCHANGED <<hasData, connectionError, activeTextId,
                                    graphLoadedBy, dataLoadedBy>>
                ELSE \* onError(new Error(err.message)) when there is a message
                     /\ cycles' = [cycles EXCEPT ![c].status = "failed"]
                     /\ hasData' = IF error.message # <<>> THEN Bool(FALSE) ELSE hasData
                     /\ connectionError' = IF error.message # <<>>
                                           THEN Str(error.message)
                                           ELSE connectionError
                     /\ UNCHANGED <<activeTextId, graphLoadedBy, dataLoadedBy>>
    /\ UNCHANGED <<buildVars, barVars>>
    /\ UNCHANGED <<searchWord, searchType, searchDeps, graphFilters, refreshKey,
                   reactPc, triggers>>

\* no build is running
BuildAtRest ==
    /\ data = Payload(FALSE, <<>>, FALSE, <<>>)
    /\ isWordVisualization = FALSE
    /\ pc = "start"
    /\ i = 1
    /\ sectionCounter = 0
    /\ sectionIdMap = <<>>
    /\ graph = EmptyGraph
    /\ isDenseGraph = FALSE
    /\ addedEdges = {}
    /\ duplicateCount = 0
    /\ fa2 = NoFa2

\* the page mounts GraphVisualization with no word and the type "word"
ViewMount ==
    /\ BuildAtRest
    /\ searchWord = Undefined
    /\ searchType = Str(SearchTypeWord)
    /\ ViewInit
    /\ BarInit

ViewNext ==
    \/ RunEffect
    \/ Cleanup
    \/ SetSearch
    \/ SearchEffect
    \/ HandleRefresh
    \/ HandleFilterChange
    \/ LoadDataSettles

ViewSpec == ViewMount /\ [][ViewNext]_vars

---------------------------------------------------------------------------
(* C19 *)

\* the cycles whose fetch is in flight and not aborted
LiveFetches == {c \in 1..Len(cycles) : cycles[c].status = "pending" /\ ~cycles[c].aborted}

\* C19: every handler run that changes the key or the filters starts one
\* cycle (with the cycle of the mount, one more cycle than triggers once
\* React has committed); every cycle but the newest is aborted, and all are
\* when the effect is about to issue the next fetch; so at most one fetch
\* is in flight and not aborted.
C19_OneCyclePerTriggerOneLiveFetch ==
    /\ (reactPc = "idle") => (Len(cycles) = triggers + 1)
    /\ (reactPc # "idle") => (Len(cycles) = triggers)
    /\ \A c \in 1..(Len(cycles) - 1) : cycles[c].aborted
    /\ (reactPc = "effect") => (\A c \in 1..Len(cycles) : cycles[c].aborted)
    /\ Cardinality(LiveFetches) <= 1

\* two triggers after the mount: the fetch of the second cycle still pending
\* and aborted, the fetch of the third in flight
C19_Witness ==
    /\ triggers = 2
    /\ Len(cycles) = 3
    /\ reactPc = "idle"
    /\ cycles[2].status = "pending"
    /\ cycles[2].aborted
    /\ cycles[3].status = "pending"
    /\ LiveFetches = {3}

---------------------------------------------------------------------------
(* C20 *)

\* one step of the view, as C20 has it
OnlyNewestCycleDelivers ==
    /\ (dataLoadedBy' # dataLoadedBy) =>
          /\ dataLoadedBy' = Append(dataLoadedBy, Len(cycles))
          /\ ~cycles[Len(cycles)].aborted
    /\ (graphLoadedBy' # graphLoadedBy /\ graphLoadedBy' # 0) =>
          /\ graphLoadedBy' = Len(cycles)
          /\ ~cycles[Len(cycles)].aborted
    /\ \A c \in 1..Len(cycles) :
          (cycles[c].aborted /\ cycles[c].status = "pending") =>
              cycles'[c].status \in {"pending", "dropped"}

\* C20: onDataLoaded and loadGraph are only ever called by the newest
\* cycle, not aborted; a cycle whose abort has fired ends dropped, having
\* called neither.
C20_SupersededFetchDeliversNothing == [][OnlyNewestCycleDelivers]_vars

\* the fetch of the first cycle was aborted and dropped, the second cycle
\* loaded its graph
C20_Witness ==
    /\ Len(cycles) = 2
    /\ cycles[1].aborted
    /\ cycles[1].status = "dropped"
    /\ cycles[2].status = "loaded"
    /\ graphLoadedBy = 2
    /\ dataLoadedBy = <<2>>


---------------------------------------------------------------------------
(* SearchBar: the concordance search.                                      *)

\* what the user may type in the input
SearchQueries == {<<>>, <<" ", "k", "e", "-">>, <<"r", "u", "n">>}

\* one result of the concordance endpoint for a target
ConcordanceResult(target) == [target |-> target, phrase_id |-> <<"p", "1">>]

\* what the transport may do with a concordance request
SearchResponses(search) ==
    {Response("json", <<ConcordanceResult(search.target)>>, NoError),
     Response("status", <<>>, NoError),
     Response("rejected", <<>>, NetworkError)}

\* onChange of the input
SetSearchQuery ==
    /\ \E query \in SearchQueries :
          /\ query # searchQuery
          /\ searchQuery' = query
    /\ UNCHANGED <<buildVars, viewVars>>
    /\ UNCHANGED <<barSearchType, results, isSearching, showResults, searches,
                   handled, reported>>

\* onClick of the two buttons of the segmented control
SetSearchType ==
    /\ \E type \in {SearchTypeMorpheme, SearchTypeWord} :
          /\ type # barSearchType
          /\ barSearchType' = type
    /\ UNCHANGED <<buildVars, viewVars>>
    /\ UNCHANGED <<searchQuery, results, isSearching, showResults, searches,
                   handled, reported>>

\* handleSearch up to its first await: an empty query clears the results,
\* any other sets isSearching and sends the request
handleSearch ==
    /\ handled' = handled + 1
    /\ IF Trim(searchQuery) = <<>>
       THEN /\ results' = <<>>
            /\ showResults' = FALSE
            /\ reported' = [called |-> TRUE, results |-> <<>>]
            /\ UNCHANGED <<isSearching, searches>>
       ELSE /\ isSearching' = TRUE
            /\ searches' = Append(searches,
                                  [target |-> Trim(searchQuery),
                                   target_type |-> barSearchType,
                                   status |-> "pending",
                                   data |-> <<>>,
                                   call |-> handled + 1])
            /\ UNCHANGED <<results, showResults, reported>>
    /\ UNCHANGED <<buildVars, viewVars>>
    /\ UNCHANGED <<searchQuery, barSearchType>>

\* onClick of the Search button, which is disabled while isSearching
ClickSearch ==
    /\ handled < MaxSearches
    /\ ~isSearching
    /\ handleSearch

\* handleKeyPress with the key Enter
handleKeyPress ==
    /\ handled < MaxSearches
    /\ handleSearch

\* the request of a search settles and handleSearch runs to its end
SearchSettles ==
    /\ \E r \in 1..Len(searches) :
          /\ searches[r].status = "pending"
          /\ \E response \in SearchResponses(searches[r]) :
                IF response.kind = "json"
                THEN /\ results' = response.data
                     /\ showResults' = TRUE
                     /\ reported' = [called |-> TRUE, results |-> response.data]
                     /\ searches' = [searches EXCEPT ![r].status = "done",
                                                     ![r].data = response.data]
                ELSE /\ results' = <<>>
                     /\ showResults' = FALSE
                     /\ searches' = [searches EXCEPT ![r].status = "failed"]
                     /\ UNCHANGED reported
    /\ isSearching' = FALSE
    /\ UNCHANGED <<buildVars, viewVars>>
    /\ UNCHANGED <<searchQuery, barSearchType, handled>>

SearchBarNext ==
    \/ SetSearchQuery
    \/ SetSearchType
    \/ ClickSearch
    \/ handleKeyPress
    \/ SearchSettles

SearchBarSpec == ViewMount /\ [][SearchBarNext]_vars

---------------------------------------------------------------------------
(* C21 *)

\* positions of the raw edge records the edge loop has gone through
EdgesProcessed ==
    IF pc = "edges" THEN 1..(i - 1)
    ELSE IF pc \in {"refine", "done"} /\ NodesGiven /\ EdgesGiven
         THEN 1..Len(data.edges)
         ELSE {}

\* the counts a build keeps: duplicateCount is the only counter of
\* buildGraphFromData, and the summary it logs holds graph.order, graph.size
\* and duplicateCount
RecordedDrops == duplicateCount

\* C21: the counts a build has accumulated add up to the number of raw edge
\* records it has dropped; a build whose only edge record is dangling ends
\* with 0 edges and 1 recorded rejection.
C21_CountsMatchDrops ==
    (pc \in {"refine", "done"} /\ NodesGiven /\ EdgesGiven) =>
        RecordedDrops = Len(data.edges) - Len(graph.edges)

---------------------------------------------------------------------------
(* C22 *)

\* the id C22 gives the edge made from the record at the 1-based position k
ClaimedEdgeId(k) ==
    LET edge == data.edges[k] IN
    IF edge.id.t = "string" /\ edge.id.s # <<>>
    THEN edge.id.s
    ELSE EdgeIdPrefix \o EdgeSourceOf(edge) \o <<"-">> \o EdgeTargetOf(edge)
             \o <<"-">> \o NatToString(k - 1)

\* an accepting step of the edge loop, as C22 has it
AcceptedEdgeIdIsNew ==
    EdgeAcceptedStep =>
        LET new == graph'.edges[Len(graph'.edges)] IN
        /\ new.key = ClaimedEdgeId(i)
        /\ \A k \in 1..Len(graph.edges) : graph.edges[k].key # new.key

\* C22: every accepted edge has an id no other edge of the graph has: the
\* record's own id when it has one, otherwise "edge-", the source, the
\* target and the 0-based index of the record in the raw edge sequence.
C22_AcceptedEdgeIdsUnique == [][AcceptedEdgeIdIsNew]_vars

\* two edges in the graph, the first under the id of its record, the second
\* under an id synthesized with the index 1
C22_Witness ==
    /\ Len(graph.edges) = 2
    /\ graph.edges[1].key = SomeEdgeId
    /\ graph.edges[2].key = <<"e", "d", "g", "e", "-", "b", "-", "a", "-", "1">>

---------------------------------------------------------------------------
(* C23 *)

\* a step of the edge loop that counted its record as a duplicate
DuplicateStep == pc = "edges" /\ duplicateCount' = duplicateCount + 1

\* an earlier record has the trimmed source and the trimmed target of the
\* record at position k
PairSeenBefore(k) ==
    \E j \in 1..(k - 1) :
        /\ WellFormedEdge(data.edges[j])
        /\ EdgeSourceOf(data.edges[j]) = EdgeSourceOf(data.edges[k])
        /\ EdgeTargetOf(data.edges[j]) = EdgeTargetOf(data.edges[k])

OnlyEqualPairsSuppress == DuplicateStep => PairSeenBefore(i)

\* C23: a record is dropped as a duplicate only if an earlier record has the
\* same trimmed source and the same trimmed target, whatever characters the
\* ids contain.
C23_DedupByOrderedPair == [][OnlyEqualPairsSuppress]_vars

---------------------------------------------------------------------------
(* C24 *)

\* the record names two nodes of the graph by its source and target as given
NamesTwoNodes(edge) ==
    /\ edge.t = "object"
    /\ HasNode(graph, ToString(edge.source))
    /\ HasNode(graph, ToString(edge.target))

\* C24: when the edge loop has ended, every edge record whose source and
\* target are ids of nodes of the graph has its ordered pair in the graph,
\* whatever its id, type, size and color hold and whatever the ids are.
C24_ValidEdgeAccepted ==
    (pc \in {"refine", "done"} /\ NodesGiven /\ EdgesGiven) =>
        \A k \in 1..Len(data.edges) :
            NamesTwoNodes(data.edges[k]) =>
                PairAccepted(graph, ToString(data.edges[k].source),
                             ToString(data.edges[k].target))

---------------------------------------------------------------------------
(* C25 *)

\* C25: every node and every edge of the graph has a size above 0.
C25_SizesPositive ==
    /\ \A k \in 1..Len(graph.nodes) : graph.nodes[k].size > 0
    /\ \A k \in 1..Len(graph.edges) : graph.edges[k].size > 0

---------------------------------------------------------------------------
(* C27 *)

---------------------------------------------------------------------------
(* C26 *)

\* one step of the view, as C26 has it: a cycle fails, or the connection
\* error is set, only by the newest cycle while it is not aborted
ErrorOnlyFromCurrentCycle ==
    /\ \A c \in 1..Len(cycles) :
          (cycles[c].status = "pending" /\ cycles'[c].status = "failed") =>
              (c = Len(cycles) /\ ~cycles[c].aborted)
    /\ (connectionError' # connectionError /\ connectionError' # Null) =>
          /\ Len(cycles) > 0
          /\ ~cycles[Len(cycles)].aborted
          /\ cycles[Len(cycles)].status = "pending"
          /\ cycles'[Len(cycles)].status = "failed"

\* C26: once the abort of a cycle has fired, onError is not called for that
\* cycle: the connection error is only ever set by the newest cycle, not
\* aborted.
C26_SupersededFetchReportsNoError == [][ErrorOnlyFromCurrentCycle]_vars

\* the aborted fetch of the first cycle was dropped without an error, the
\* second cycle failed and its error is shown
C26_Witness ==
    /\ Len(cycles) = 2
    /\ cycles[1].aborted
    /\ cycles[1].status = "dropped"
    /\ cycles[2].status = "failed"
    /\ ~cycles[2].aborted
    /\ connectionError # Null
    /\ dataLoadedBy = <<>>

---------------------------------------------------------------------------
(* C30 *)

\* C30: applying an update to the filters it has just been applied to
\* changes nothing and returns those filters themselves, and an update that
\* changes no value returns the filters it was given, so handleFilterChange
\* starts no cycle for it.
C30_FilterUpdateIdempotent ==
    \A update \in FilterUpdates :
        LET first == FilterUpdater(graphFilters, update)
            second == FilterUpdater(first.filters, update)
        IN  /\ ~second.hasChanges
            /\ second.filters = first.filters
            /\ first.hasChanges <=> (first.filters # graphFilters)

\* an update of the limit and the textId was applied and its cycle started:
\* the filters hold the limit and the textId, and the fetch is in flight
C30_Witness ==
    /\ reactPc = "idle"
    /\ Len(cycles) = triggers + 1
    /\ graphFilters.limit = 50
    /\ graphFilters.textId = Str(SomeTextId)
    /\ cycles[Len(cycles)].status = "pending"
    /\ cycles[Len(cycles)].filters = graphFilters

---------------------------------------------------------------------------
(* C28 *)

\* every request sent has completed or failed
AllSearchesSettled == \A r \in 1..Len(searches) : searches[r].status # "pending"

\* the last run of handleSearch sent a request
LastSearchSent == Len(searches) > 0 /\ searches[Len(searches)].call = handled

\* C28: once every request has settled, the results shown are those of the
\* search started last (none when it failed), and when it succeeded they
\* are what the results callback was last given.
C28_LatestSearchShown ==
    (LastSearchSent /\ AllSearchesSettled) =>
        LET last == searches[Len(searches)] IN
        /\ results = (IF last.status = "done" THEN last.data ELSE <<>>)
        /\ (last.status = "done") => (reported = [called |-> TRUE, results |-> last.data])

---------------------------------------------------------------------------
(* C29 *)

\* C29: isSearching is true in every state in which a request is in flight.
C29_SearchingWhileInFlight ==
    (\E r \in 1..Len(searches) : searches[r].status = "pending") => isSearching
=============================================================================
